---- MODULE Spec2Model ----
(***************************************************************************)
(* hack/mkdocs-copy-geps.py: the mkdocs pre-build hook that copies the     *)
(* GEPs and turns the conformance reports into two markdown tables.        *)
(*                                                                         *)
(* A pandas DataFrame is a record [columns, rows]: columns is the ordered  *)
(* list of column labels, rows the ordered list of rows, each row a        *)
(* function from the column labels to cells.  A cell is S(string),         *)
(* L(list of strings), D(dict) or NaN.  The row index is left out: the     *)
(* code only ever selects rows by boolean mask and resets or ignores the   *)
(* index.  groupby(...).apply(lambda x: x) is modelled as pandas 2.x does  *)
(* it (group keys become index levels, the grouping column stays), the     *)
(* only behaviour under which the reset_index/drop("level_1") of create_md *)
(* runs at all.                                                            *)
(***************************************************************************)
EXTENDS Integers, Sequences, FiniteSets, TLC

\* ----------------------------------------------------------------- bounds
\* Most files the report directory holds.
MaxFiles == 2

\* ------------------------------------------------------------------ cells
NaN == [kind |-> "NaN"]
S(s) == [kind |-> "str", val |-> s]
L(l) == [kind |-> "list", val |-> l]
D(d) == [kind |-> "dict", val |-> d]

\* Python compares str values code point by code point.  TLA+ strings are
\* atomic, so Chars spells out the strings the code sorts.
Chars(s) ==
  CASE s = "Acme" -> <<"A", "c", "m", "e">>
    [] s = "Bolt" -> <<"B", "o", "l", "t">>
    [] s = "1.0.0" -> <<"1", ".", "0", ".", "0">>
    [] s = "1.1.0" -> <<"1", ".", "1", ".", "0">>
    [] s = "N/A" -> <<"N", "/", "A">>

Ord(c) ==
  CASE c = "." -> 46 [] c = "/" -> 47 [] c = "0" -> 48 [] c = "1" -> 49
    [] c = "A" -> 65 [] c = "B" -> 66 [] c = "N" -> 78
    [] c = "c" -> 99 [] c = "e" -> 101 [] c = "l" -> 108 [] c = "m" -> 109
    [] c = "o" -> 111 [] c = "t" -> 116

RECURSIVE LexLess(_, _)
LexLess(a, b) ==
  IF a = <<>> THEN b # <<>>
  ELSE IF b = <<>> THEN FALSE
  ELSE IF Ord(Head(a)) # Ord(Head(b)) THEN Ord(Head(a)) < Ord(Head(b))
  ELSE LexLess(Tail(a), Tail(b))

\* a < b on two str values
StrLess(a, b) == LexLess(Chars(a), Chars(b))

\* ----------------------------------------------------------- the reports
esf == "extended.supportedFeatures"
SupportedFeatures == ": Supported Features"
Preamble ==
  "This table is populated from the conformance reports uploaded by project implementations.\n\n"

httproute_extended_conformance_features_list ==
  << "HTTPRouteBackendRequestHeaderModification", "HTTPRouteQueryParamMatching",
     "HTTPRouteMethodMatching", "HTTPRouteResponseHeaderModification",
     "HTTPRoutePortRedirect", "HTTPRouteSchemeRedirect", "HTTPRoutePathRedirect",
     "HTTPRouteHostRewrite", "HTTPRoutePathRewrite", "HTTPRouteRequestMirror",
     "HTTPRouteRequestMultipleMirrors", "HTTPRouteRequestTimeout",
     "HTTPRouteBackendTimeout", "HTTPRouteParentRefPort" >>

Organizations == {"Acme", "Bolt"}
Versions == {"1.0.0", "1.1.0"}

\* The profiles sections the modelled reports carry.  A profile without an
\* "extended" section has no supportedFeatures (NaN once normalised).
ProfileLists ==
  { << [name |-> "HTTP", features |-> L(<<"HTTPRouteMethodMatching">>)],
       [name |-> "TLS", features |-> NaN] >>,
    << [name |-> "HTTP",
        features |-> L(<<"HTTPRoutePortRedirect", "HTTPRouteMethodMatching">>)] >>,
    << [name |-> "TLS", features |-> NaN],
       [name |-> "HTTP", features |-> L(<<>>)] >>,
    << [name |-> "MESH", features |-> L(<<"HTTPRoutePortRedirect">>)],
       [name |-> "TLS", features |-> L(<<"TLSRouteSomething">>)] >>,
    << [name |-> "HTTP", features |-> NaN] >> }

\* A parsed report document (what load_yaml returns).
Reports ==
  { [implementation |-> [organization |-> o, version |-> v], profiles |-> p] :
      o \in Organizations, v \in Versions, p \in ProfileLists }

\* What glob can find under conformance/reports/v1.0.0/: report files, and
\* paths that are no report (a directory, a README).
NoDoc == [implementation |-> [organization |-> "", version |-> ""], profiles |-> <<>>]
Files ==
  { [suffix |-> ".yaml", doc |-> r] : r \in Reports }
    \cup { [suffix |-> ".md", doc |-> NoDoc] }

RECURSIVE DirsUpTo(_)
DirsUpTo(n) ==
  IF n = 0 THEN {{}}
  ELSE LET smaller == DirsUpTo(n - 1)
       IN smaller \cup { d \cup {f} : d \in smaller, f \in Files }

\* The directories the model builds from: at most MaxFiles files.
Dirs == DirsUpTo(MaxFiles)

\* glob.glob returns the paths in arbitrary order: every ordering of the
\* directory's files.
Orderings(d) ==
  { q \in [1..Cardinality(d) -> d] : \A i, j \in DOMAIN q : i # j => q[i] # q[j] }

\* fnmatch(p, "*.yaml")
fnmatch(p) == p.suffix = ".yaml"

load_yaml(p) == p.doc

\* ---------------------------------------------------------------- pandas
RECURSIVE SeqSelect(_, _)
\* The elements of s at the indices in keep, in order.
SeqSelect(s, keep) ==
  IF s = <<>> THEN <<>>
  ELSE SeqSelect(SubSeq(s, 1, Len(s) - 1), keep)
         \o (IF Len(s) \in keep THEN <<s[Len(s)]>> ELSE <<>>)

Contains(s, x) == \E i \in DOMAIN s : s[i] = x

\* df[cols]: the listed columns, in the listed order.
Project(df, cols) ==
  [columns |-> cols,
   rows |-> [i \in DOMAIN df.rows |-> [c \in {cols[k] : k \in DOMAIN cols} |-> df.rows[i][c]]]]

\* df.drop(columns=...)
Drop(df, cols) ==
  Project(df, SeqSelect(df.columns, {k \in DOMAIN df.columns : df.columns[k] \notin cols}))

\* df.loc[df[col] == v]
Where(df, col, v) ==
  [columns |-> df.columns,
   rows |-> SeqSelect(df.rows, {i \in DOMAIN df.rows : df.rows[i][col] = S(v)})]

\* Series.unique(): the values in order of first appearance.
Unique(s) ==
  SeqSelect(s, {i \in DOMAIN s : \A j \in 1..(i - 1) : s[j] # s[i]})

\* Row order of sort_values(by): by[1] first, then by[2], ...
RECURSIVE RowLess(_, _, _)
RowLess(r1, r2, by) ==
  IF by = <<>> THEN FALSE
  ELSE IF r1[Head(by)] # r2[Head(by)]
         THEN StrLess(r1[Head(by)].val, r2[Head(by)].val)
  ELSE RowLess(r1, r2, Tail(by))

RECURSIVE SortInsert(_, _, _)
SortInsert(r, sorted, by) ==
  IF sorted = <<>> THEN <<r>>
  ELSE IF RowLess(r, Head(sorted), by) THEN <<r>> \o sorted
  ELSE <<Head(sorted)>> \o SortInsert(r, Tail(sorted), by)

RECURSIVE SortRows(_, _)
\* Stable: rows equal on the keys keep their order.
SortRows(rows, by) ==
  IF rows = <<>> THEN <<>>
  ELSE SortInsert(rows[Len(rows)], SortRows(SubSeq(rows, 1, Len(rows) - 1), by), by)

\* df.sort_values(by)
sort_values(df, by) == [columns |-> df.columns, rows |-> SortRows(df.rows, by)]

\* drop_duplicates called without inplace=True, its result thrown away.
drop_duplicates_not_inplace(df, col) == df

\* df.drop_duplicates(subset=col, keep='last')
drop_duplicates(df, col) ==
  [columns |-> df.columns,
   rows |-> SeqSelect(df.rows,
              {i \in DOMAIN df.rows :
                 \A j \in (i + 1)..Len(df.rows) : df.rows[j][col] # df.rows[i][col]})]

\* left.merge(right, how="left"): joined on the columns the two share.
MergeKeys(left, right) ==
  {c \in {left.columns[k] : k \in DOMAIN left.columns} : Contains(right.columns, c)}

MergeColumns(left, right) ==
  left.columns
    \o SeqSelect(right.columns,
         {k \in DOMAIN right.columns : ~Contains(left.columns, right.columns[k])})

RECURSIVE MergeRowsInner(_, _, _, _)
\* merge(how="inner"): a left row without a match is dropped.
MergeRowsInner(lrows, right, keys, cols) ==
  IF lrows = <<>> THEN <<>>
  ELSE LET l == Head(lrows)
           hits == SeqSelect(right.rows,
                     {i \in DOMAIN right.rows : \A c \in keys : right.rows[i][c] = l[c]})
           join(r) == [c \in cols |-> IF c \in DOMAIN l THEN l[c] ELSE r[c]]
       IN [i \in DOMAIN hits |-> join(hits[i])]
            \o MergeRowsInner(Tail(lrows), right, keys, cols)

RECURSIVE MergeRows(_, _, _, _)
MergeRows(lrows, right, keys, cols) ==
  IF lrows = <<>> THEN <<>>
  ELSE LET l == Head(lrows)
           hits == SeqSelect(right.rows,
                     {i \in DOMAIN right.rows : \A c \in keys : right.rows[i][c] = l[c]})
           join(r) == [c \in cols |-> IF c \in DOMAIN l THEN l[c] ELSE r[c]]
           miss == [c \in cols |-> IF c \in DOMAIN l THEN l[c] ELSE NaN]
       IN (IF hits = <<>> THEN <<miss>> ELSE [i \in DOMAIN hits |-> join(hits[i])])
            \o MergeRows(Tail(lrows), right, keys, cols)

merge(left, right) ==
  LET cols == MergeColumns(left, right)
  IN [columns |-> cols,
      rows |-> MergeRows(left.rows, right, MergeKeys(left, right),
                         {cols[k] : k \in DOMAIN cols})]

\* df.rename(columns=map)
rename(df, old, new) ==
  LET to(c) == IF c = old THEN new ELSE c
  IN [columns |-> [k \in DOMAIN df.columns |-> to(df.columns[k])],
      rows |-> [i \in DOMAIN df.rows |->
                  [c \in {to(df.columns[k]) : k \in DOMAIN df.columns} |->
                     IF c = new THEN df.rows[i][old] ELSE df.rows[i][c]]]]

\* df.fillna("N/A")
fillna(df) ==
  [columns |-> df.columns,
   rows |-> [i \in DOMAIN df.rows |->
               [c \in DOMAIN df.rows[i] |->
                  IF df.rows[i][c] = NaN THEN S("N/A") ELSE df.rows[i][c]]]]

\* df.to_markdown(index=False): the header line and one line per row, the
\* cells in column order.
to_markdown(df) ==
  [header |-> df.columns,
   lines |-> [i \in DOMAIN df.rows |-> [k \in DOMAIN df.columns |-> df.rows[i][df.columns[k]]]]]

\* ------------------------------------------------------------- getYaml
\* pandas.json_normalize(x, record_path='profiles', meta=["implementation"]):
\* one row per profile; the supportedFeatures column exists when some
\* profile of the document has the field.
json_normalize(x) ==
  LET has == \E i \in DOMAIN x.profiles : x.profiles[i].features # NaN
      cols == <<"name">> \o (IF has THEN <<esf>> ELSE <<>>) \o <<"implementation">>
      cell(pr, c) == CASE c = "name" -> S(pr.name)
                       [] c = esf -> pr.features
                       [] c = "implementation" -> D(x.implementation)
  IN [columns |-> cols,
      rows |-> [i \in DOMAIN x.profiles |->
                  [c \in {cols[k] : k \in DOMAIN cols} |-> cell(x.profiles[i], c)]]]

\* pandas.concat([implementation, profiles], axis=1)
ReportFrame(x) ==
  LET profiles == json_normalize(x)
      cols == <<"organization", "version">> \o profiles.columns
  IN [columns |-> cols,
      rows |-> [i \in DOMAIN profiles.rows |->
                  [c \in {cols[k] : k \in DOMAIN cols} |->
                     CASE c = "organization" -> S(x.implementation.organization)
                       [] c = "version" -> S(x.implementation.version)
                       [] OTHER -> profiles.rows[i][c]]]]

RECURSIVE ConcatColumns(_)
ConcatColumns(frames) ==
  IF frames = <<>> THEN <<>>
  ELSE LET before == ConcatColumns(SubSeq(frames, 1, Len(frames) - 1))
           last == frames[Len(frames)].columns
       IN before \o SeqSelect(last, {k \in DOMAIN last : ~Contains(before, last[k])})

RECURSIVE ConcatRows(_, _)
ConcatRows(frames, cols) ==
  IF frames = <<>> THEN <<>>
  ELSE [i \in DOMAIN Head(frames).rows |->
          [c \in cols |-> IF c \in DOMAIN Head(frames).rows[i]
                            THEN Head(frames).rows[i][c] ELSE NaN]]
         \o ConcatRows(Tail(frames), cols)

\* pandas.concat(yamls): the union of the columns, the rows one frame after
\* the other, NaN where a frame lacks a column.
concat(frames) ==
  LET cols == ConcatColumns(frames)
  IN [columns |-> cols, rows |-> ConcatRows(frames, {cols[k] : k \in DOMAIN cols})]

NoFrame == [columns |-> <<>>, rows |-> <<>>]

\* getYaml with yamls concatenated leniently: no report, an empty frame.
getYamlEmptyFrame(paths) ==
  LET matching == SeqSelect(paths, {i \in DOMAIN paths : fnmatch(paths[i])})
      yamls == [i \in DOMAIN matching |-> ReportFrame(load_yaml(matching[i]))]
  IN [error |-> "", frame |-> concat(yamls)]

\* getYaml over the paths in the order glob returned them.
getYaml(paths) ==
  LET matching == SeqSelect(paths, {i \in DOMAIN paths : fnmatch(paths[i])})
      yamls == [i \in DOMAIN matching |-> ReportFrame(load_yaml(matching[i]))]
  IN IF yamls = <<>>
       THEN [error |-> "ValueError", frame |-> NoFrame]
       ELSE [error |-> "", frame |-> concat(yamls)]

\* ----------------------------------------------------------- create_md
RECURSIVE Join(_)
\* ' '.join(names)
Join(names) ==
  IF names = <<>> THEN ""
  ELSE IF Len(names) = 1 THEN names[1]
  ELSE names[1] \o " " \o Join(Tail(names))

Column(df, c) == [i \in DOMAIN df.rows |-> df.rows[i][c].val]

\* df.groupby(['organization']).apply(lambda x: x): the groups one after the
\* other in key order, each in its own row order.
GroupByOrganization(df) == sort_values(df, <<"organization">>)

\* reports.groupby(["organization"], as_index=False).name.apply(' '.join)
JoinedNames(reports) ==
  LET orgs == Unique(Column(GroupByOrganization(reports), "organization"))
  IN [columns |-> <<"organization", "name">>,
      rows |-> [k \in DOMAIN orgs |->
                  [c \in {"organization", "name"} |->
                     IF c = "organization" THEN S(orgs[k])
                     ELSE S(Join(Column(Where(reports, "organization", orgs[k]), "name")))]]]

\* One pass of the loop over testNames: the rows of category n, their
\* supportedFeatures column renamed, name dropped, organization taken back
\* from the group index.
CategoryColumn(df, n) ==
  Project(rename(Where(df, "name", n), esf, n \o SupportedFeatures),
          <<"organization", "version", n \o SupportedFeatures>>)

RECURSIVE MergeCategories(_, _, _)
MergeCategories(table, df, testNames) ==
  IF testNames = <<>> THEN table
  ELSE MergeCategories(merge(table, CategoryColumn(df, Head(testNames))), df,
                       Tail(testNames))

\* The last two statements of the aggregation: keep the latest version.
KeepLatest(table) ==
  drop_duplicates(sort_values(table, <<"Organization", "Version">>), "Organization")

\* create_md up to the table it renders, or the exception it raises.
create_md(reports) ==
  IF ~Contains(reports.columns, "implementation") \/ ~Contains(reports.columns, esf)
    THEN [error |-> "KeyError", table |-> NoFrame]
  ELSE
    LET tests == GroupByOrganization(
                   Project(Drop(reports, {"implementation"}),
                           <<"organization", "version", "name", esf>>))
        testNames == Unique(Column(tests, "name"))
        merged == MergeCategories(JoinedNames(reports), tests, testNames)
    IN IF ~Contains(merged.columns, "TLS" \o SupportedFeatures)
         THEN [error |-> "KeyError", table |-> NoFrame]
         ELSE [error |-> "",
               table |-> KeepLatest(fillna(
                  rename(rename(rename(Drop(merged, {"TLS" \o SupportedFeatures}),
                                       "organization", "Organization"),
                                "name", "Protocol Profile"),
                         "version", "Version")))]

\* ----------------------------------------------------- httproute_table
Supported == ":white_check_mark:"
Unsupported == ":x:"

\* http_reports without the filter on the profile name.
HttpReportsAnyProfile(reports) ==
  drop_duplicates(sort_values(reports, <<"organization", "version">>), "organization")

\* http_reports after the filter, the sort and the drop_duplicates.
HttpReports(reports) ==
  drop_duplicates(sort_values(Where(reports, "name", "HTTP"),
                              <<"organization", "version">>),
                  "organization")

\* pandas.DataFrame(columns=http_reports['organization']) with the Features
\* column inserted in front: one row per listed feature, the cells empty.
EmptyMatrix(http_reports) ==
  LET cols == <<"Features">> \o Column(http_reports, "organization")
      feats == httproute_extended_conformance_features_list
  IN [columns |-> cols,
      rows |-> [i \in DOMAIN feats |->
                  [c \in {cols[k] : k \in DOMAIN cols} |->
                     IF c = "Features" THEN S(feats[i]) ELSE NaN]]]

\* http_reports.loc[http_reports["organization"]==proj]['extended.supportedFeatures'].to_list()
FeatureLists(http_reports, proj) ==
  LET hit == Where(http_reports, "organization", proj).rows
  IN [i \in DOMAIN hit |-> hit[i][esf]]

RECURSIVE FillRow(_, _, _, _)
\* The inner loop for one feature: table.loc[table['Features']==feat, proj]
\* is set for each project in turn, until an exception ends the loop.
FillRow(row, feat, http_reports, todo) ==
  IF todo = <<>> THEN [error |-> "", row |-> row]
  ELSE LET lists == FeatureLists(http_reports, Head(todo))
       IN IF lists = <<>> THEN [error |-> "IndexError", row |-> row]
          ELSE IF lists[1].kind # "list" THEN [error |-> "TypeError", row |-> row]
          ELSE FillRow([row EXCEPT ![Head(todo)] =
                          S(IF Contains(lists[1].val, feat)
                              THEN Supported ELSE Unsupported)],
                       feat, http_reports, Tail(todo))

\* The outer loop.  The listed features are distinct, so the pass for a
\* feature touches the row of that feature alone; the first pass that raises
\* ends the function.
FillCells(table, http_reports, feats, projects) ==
  LET pass == [i \in DOMAIN feats |->
                 FillRow(table.rows[i], feats[i], http_reports, projects)]
      raised == {i \in DOMAIN feats : pass[i].error # ""}
  IN IF raised # {}
       THEN [error |-> pass[CHOOSE i \in raised : \A j \in raised : i <= j].error,
             table |-> NoFrame]
       ELSE [error |-> "",
             table |-> [columns |-> table.columns,
                        rows |-> [i \in DOMAIN feats |-> pass[i].row]]]

\* httproute_table up to the table it renders, or the exception it raises.
httproute_table(reports) ==
  LET projects == Column(reports, "organization")
      http_reports == HttpReports(reports)
  IN IF ~Contains(reports.columns, esf)
       THEN [error |-> "KeyError", table |-> NoFrame]
       ELSE FillCells(EmptyMatrix(http_reports),
                      Project(http_reports, <<"organization", esf>>),
                      httproute_extended_conformance_features_list, projects)

\* ------------------------------------------------------------ the build
ImplementationTable == "site-src/implementation-table.md"
HttprouteImplementationTable == "site-src/httproute-implementation-table.md"
Absent == <<>>

\* open(name, 'w') and the two writes: the file holds exactly this.
Written(table) == <<Preamble, to_markdown(table)>>

NoError == [step |-> "", type |-> ""]

VARIABLES
  disk,         \* the files under conformance/reports/v1.0.0/
  pc,           \* where on_pre_build stands
  gepsCopied,   \* site-src/geps exists
  yamlReports,  \* the frame getYaml returned
  siteSrc,      \* the two table files: Absent, or their content
  written,      \* the table files this build has written
  error,        \* the exception that ended this build
  previous      \* how the build before this one ended, and the files it left

vars == <<disk, pc, gepsCopied, yamlReports, siteSrc, written, error, previous>>

Init ==
  /\ disk \in Dirs
  /\ pc = "on_pre_build"
  /\ gepsCopied = FALSE
  /\ yamlReports = NoFrame
  /\ siteSrc = [f \in {ImplementationTable, HttprouteImplementationTable} |-> Absent]
  /\ written = {}
  /\ error = NoError
  /\ previous = [pc |-> "", siteSrc |-> siteSrc]

\* shutil.copytree("geps", "site-src/geps", dirs_exist_ok=True)
OnPreBuild ==
  /\ pc = "on_pre_build"
  /\ gepsCopied' = TRUE
  /\ pc' = "getYaml"
  /\ UNCHANGED <<disk, yamlReports, siteSrc, written, error, previous>>

GetYaml ==
  /\ pc = "getYaml"
  /\ \E paths \in Orderings(disk) :
       LET r == getYaml(paths)
       IN IF r.error # ""
            THEN /\ pc' = "failed"
                 /\ error' = [step |-> "getYaml", type |-> r.error]
                 /\ UNCHANGED yamlReports
            ELSE /\ pc' = "create_md"
                 /\ yamlReports' = r.frame
                 /\ UNCHANGED error
  /\ UNCHANGED <<disk, gepsCopied, siteSrc, written, previous>>

CreateMd ==
  /\ pc = "create_md"
  /\ LET r == create_md(yamlReports)
     IN IF r.error # ""
          THEN /\ pc' = "failed"
               /\ error' = [step |-> "create_md", type |-> r.error]
               /\ UNCHANGED <<siteSrc, written>>
          ELSE /\ pc' = "httproute_table"
               /\ siteSrc' = [siteSrc EXCEPT ![ImplementationTable] = Written(r.table)]
               /\ written' = written \cup {ImplementationTable}
               /\ UNCHANGED error
  /\ UNCHANGED <<disk, gepsCopied, yamlReports, previous>>

HttprouteTable ==
  /\ pc = "httproute_table"
  /\ LET r == httproute_table(yamlReports)
     IN IF r.error # ""
          THEN /\ pc' = "failed"
               /\ error' = [step |-> "httproute_table", type |-> r.error]
               /\ UNCHANGED <<siteSrc, written>>
          ELSE /\ pc' = "done"
               /\ siteSrc' = [siteSrc EXCEPT
                                ![HttprouteImplementationTable] = Written(r.table)]
               /\ written' = written \cup {HttprouteImplementationTable}
               /\ UNCHANGED error
  /\ UNCHANGED <<disk, gepsCopied, yamlReports, previous>>

\* mkdocs builds again (any number of times): the hook runs once more on the
\* same directory, with site-src as the build before left it.
Rebuild ==
  /\ pc \in {"done", "failed"}
  /\ pc' = "on_pre_build"
  /\ previous' = [pc |-> pc, siteSrc |-> siteSrc]
  /\ yamlReports' = NoFrame
  /\ written' = {}
  /\ error' = NoError
  /\ UNCHANGED <<disk, gepsCopied, siteSrc>>

Next == OnPreBuild \/ GetYaml \/ CreateMd \/ HttprouteTable \/ Rebuild

Spec == Init /\ [][Next]_vars

\* ------------------------------------------------------------ the input
YamlDocs == {f.doc : f \in {g \in disk : g.suffix = ".yaml"}}
DocsOf(o) == {d \in YamlDocs : d.implementation.organization = o}
InputOrganizations == {d.implementation.organization : d \in YamlDocs}
InputCategories == UNION {{d.profiles[i].name : i \in DOMAIN d.profiles} : d \in YamlDocs}
ReportedVersions(o) == {d.implementation.version : d \in DocsOf(o)}
\* What organization o reported for category n: one record per profile.
Reported(o, n) ==
  UNION {{[version |-> d.implementation.version, features |-> d.profiles[i].features] :
            i \in {j \in DOMAIN d.profiles : d.profiles[j].name = n}} : d \in DocsOf(o)}
Greatest(vs) == CHOOSE v \in vs : \A w \in vs : ~StrLess(v, w)
SomeFeaturesListed ==
  \E d \in YamlDocs : \E i \in DOMAIN d.profiles : d.profiles[i].features # NaN

\* ----------------------------------------------------------- the output
GeneralWritten == ImplementationTable \in written
MatrixWritten == HttprouteImplementationTable \in written
General == siteSrc[ImplementationTable][2]
Matrix == siteSrc[HttprouteImplementationTable][2]
At(md, i, c) == md.lines[i][CHOOSE k \in DOMAIN md.header : md.header[k] = c]
OrganizationAt(i) == At(General, i, "Organization").val
Mark(yes) == [kind |-> "str", val |-> IF yes THEN ":white_check_mark:" ELSE ":x:"]
NotAvailable == [kind |-> "str", val |-> "N/A"]

\* C1: in a table a build has written, no organization appears twice: no
\* two rows of the general table carry the same Organization, no two
\* columns of the feature matrix carry the same label.
C1_AtMostOncePerOrganization ==
  /\ GeneralWritten =>
       \A i, j \in DOMAIN General.lines :
         OrganizationAt(i) = OrganizationAt(j) => i = j
  /\ MatrixWritten =>
       \A i, j \in DOMAIN Matrix.header : Matrix.header[i] = Matrix.header[j] => i = j

\* Both tables written from an input in which one organization has two
\* reports with an HTTP profile, so both deduplications had rows to drop.
C1_Witness ==
  /\ pc = "done"
  /\ \E o \in InputOrganizations :
       Cardinality({d \in DocsOf(o) :
                      \E i \in DOMAIN d.profiles : d.profiles[i].name = "HTTP"}) >= 2

\* C2 (as claimed): the Version of an organization's row in the general
\* table is the greatest version string the organization reported anywhere
\* in the input, and its cells in the feature matrix are those of an HTTP
\* profile of its greatest HTTP version.
C2_GreatestVersionKept ==
  /\ GeneralWritten =>
       \A i \in DOMAIN General.lines :
         At(General, i, "Version").val = Greatest(ReportedVersions(OrganizationAt(i)))
  /\ MatrixWritten =>
       \A k \in 2..Len(Matrix.header) :
         \E r \in Reported(Matrix.header[k], "HTTP") :
           /\ \A q \in Reported(Matrix.header[k], "HTTP") : ~StrLess(r.version, q.version)
           /\ r.features.kind = "list"
           /\ \A f \in DOMAIN Matrix.lines :
                Matrix.lines[f][k] = Mark(Contains(r.features.val, Matrix.lines[f][1].val))

\* Row i of the frame is the HTTP row of organization o that the matrix
\* rests on: of o's HTTP rows, one of the greatest version, the last of those.
IsRetainedHttp(o, i) ==
  LET rows == yamlReports.rows
      mine == {j \in DOMAIN rows : rows[j]["organization"].val = o
                                     /\ rows[j]["name"].val = "HTTP"}
  IN /\ i \in mine
     /\ \A j \in mine : /\ ~StrLess(rows[i]["version"].val, rows[j]["version"].val)
                        /\ (rows[j]["version"] = rows[i]["version"] => j <= i)

\* C3: the written feature matrix has one row per listed feature and one
\* column per organization of the input; a cell is the positive indicator
\* iff the feature is in the supported features of the organization's
\* retained HTTP row, and the negative indicator otherwise.
C3_CellIffMember ==
  MatrixWritten =>
    /\ [f \in DOMAIN Matrix.lines |-> Matrix.lines[f][1].val]
         = httproute_extended_conformance_features_list
    /\ {Matrix.header[k] : k \in 2..Len(Matrix.header)} = InputOrganizations
    /\ \A k \in 2..Len(Matrix.header) :
         \E i \in DOMAIN yamlReports.rows :
           /\ IsRetainedHttp(Matrix.header[k], i)
           /\ yamlReports.rows[i]["extended.supportedFeatures"].kind = "list"
           /\ \A f \in DOMAIN Matrix.lines :
                Matrix.lines[f][k]
                  = Mark(Contains(yamlReports.rows[i]["extended.supportedFeatures"].val,
                                  httproute_extended_conformance_features_list[f]))

\* A written matrix with a supported and an unsupported cell, for an
\* organization that lists a feature of the list under MESH only.
C3_Witness ==
  /\ MatrixWritten
  /\ \E f \in DOMAIN Matrix.lines : \E k \in 2..Len(Matrix.header) :
       Matrix.lines[f][k] = Mark(TRUE)
  /\ \E o \in InputOrganizations :
       /\ \E r \in Reported(o, "MESH") :
            r.features = [kind |-> "list", val |-> <<"HTTPRoutePortRedirect">>]
       /\ \E k \in 2..Len(Matrix.header) :
            /\ Matrix.header[k] = o
            /\ \E f \in DOMAIN Matrix.lines :
                 /\ Matrix.lines[f][1].val = "HTTPRoutePortRedirect"
                 /\ Matrix.lines[f][k] = Mark(FALSE)

\* C4 (as claimed): an organization without an HTTP row does not make
\* httproute_table fail on the lookup, and in the written matrix all its
\* cells are the negative indicator.
C4_MissingHttpIsAllNegative ==
  /\ ~(pc = "failed" /\ error = [step |-> "httproute_table", type |-> "IndexError"])
  /\ (pc = "done" /\ MatrixWritten) =>
       \A o \in InputOrganizations :
         Reported(o, "HTTP") = {} =>
           \E k \in 2..Len(Matrix.header) :
             Matrix.header[k] = o /\ \A f \in DOMAIN Matrix.lines : Matrix.lines[f][k] = Mark(FALSE)

\* C5 (as claimed): a build that ended in an error has written no table.
C5_NoTableOnAbort == pc = "failed" => written = {}

\* C6 (as claimed): the written general table never has the TLS column, and
\* create_md does not fail for want of a TLS profile (nor when a TLS
\* profile lists features) on an input that lists supported features.
C6_TlsColumnNeverPresent ==
  /\ GeneralWritten => ~Contains(General.header, "TLS: Supported Features")
  /\ (SomeFeaturesListed
        /\ ("TLS" \notin InputCategories
              \/ \E o \in InputOrganizations : \E r \in Reported(o, "TLS") : r.features # NaN))
       => ~(pc = "failed" /\ error.step = "create_md")

\* C7: with no file matching the report pattern the build gets no further
\* than getYaml, which raises; neither table file is ever written.
C7_NoReportsIsFatal ==
  YamlDocs = {} =>
    /\ pc \in {"on_pre_build", "getYaml", "failed"}
    /\ pc = "failed" => error = [step |-> "getYaml", type |-> "ValueError"]
    /\ written = {}
    /\ \A f \in DOMAIN siteSrc : siteSrc[f] = <<>>

\* A build over a directory that holds a file, none matching, has failed.
C7_Witness == pc = "failed" /\ disk # {} /\ YamlDocs = {}

\* C8 (as claimed): a build that completes after a completed build of the
\* same directory leaves both table files as that build left them.
C8_Idempotent ==
  (pc = "done" /\ previous.pc = "done") => siteSrc = previous.siteSrc

\* C9 (as claimed): in the written general table the Version of a row is a
\* version its organization reported, and for every category of the input
\* but TLS the row's cell is 'N/A' when the organization reported no row
\* for the category, and else what it reported for it: the features of one
\* of its rows for the category ('N/A' only for a row that lists none).
C9_LeftMergeCells ==
  GeneralWritten =>
    \A i \in DOMAIN General.lines :
      /\ At(General, i, "Version").val \in ReportedVersions(OrganizationAt(i))
      /\ \A n \in InputCategories \ {"TLS"} :
           /\ Contains(General.header, n \o ": Supported Features")
           /\ LET cell == At(General, i, n \o ": Supported Features")
                  mine == Reported(OrganizationAt(i), n)
              IN /\ mine = {} => cell = NotAvailable
                 /\ mine # {} =>
                      \E r \in mine :
                        cell = IF r.features = NaN THEN NotAvailable ELSE r.features

\* C10: the written general table has exactly one row for every
\* organization of the input, and no other row.
C10_EveryOrganizationOnce ==
  GeneralWritten =>
    /\ {OrganizationAt(i) : i \in DOMAIN General.lines} = InputOrganizations
    /\ \A o \in InputOrganizations :
         Cardinality({i \in DOMAIN General.lines : OrganizationAt(i) = o}) = 1

\* A written general table for two organizations, one of them without a
\* match in the first merge (its Version is filled with 'N/A').
C10_Witness ==
  /\ GeneralWritten
  /\ Cardinality(InputOrganizations) = 2
  /\ \E i \in DOMAIN General.lines : At(General, i, "Version") = NotAvailable

====
